---- MODULE Spec2Model ----
(***************************************************************************)
(* Dead-link validation of search results                                  *)
(* (api/utils/check_dead_links/__init__.py).                               *)
(*                                                                         *)
(* Two specifications share the definitions below:                         *)
(*   Spec       sequential check_dead_links calls for one query against    *)
(*              the shared status cache and the stored query mask;         *)
(*   ProbeSpec  concurrent _make_head_requests batches, one asyncio task   *)
(*              per URL, each batch with the semaphore it creates.         *)
(*                                                                         *)
(* Python positions are 0-based; sequences here are 1-based, so Python     *)
(* position p is element p + 1.  start_slice keeps its Python value.       *)
(* Optional values are sequences of length at most one: None == <<>>.      *)
(***************************************************************************)
EXTENDS Integers, Sequences, FiniteSets, TLC

\* ------------------------------------------------------------- bounds
MaxLen == 2       \* longest page (len(results) = len(image_urls))
MaxOffset == 2    \* largest start_slice
MaxCalls == 2     \* check_dead_links calls in one run
MaxWideLen == 3   \* longest first page in PageSpec
MaxM == 1         \* largest LINK_VALIDATION_MAX_CONCURRENT_REQUESTS tried

URLS == {"a", "b"}
Calls == {1, 2}
QUERY == "q"

\* HTTP statuses an origin may answer a HEAD request with
HttpStatuses == {200, 301, 403, 404, 429}
\* what _head can return: a status, or -1 after an error or a timeout
StatusSet == HttpStatuses \cup {-1}

None == <<>>
Some(v) == <<v>>

Min(a, b) == IF a < b THEN a ELSE b
Range(s) == {s[i] : i \in DOMAIN s}

\* ------------------------------------------------- external collaborators
\* provider_status_mappings: per provider, the live and the unknown statuses
provider_status_mappings ==
  [flickr  |-> [live |-> {200}, unknown |-> {429}],
   default |-> [live |-> {200}, unknown |-> {403, 429}]]

\* the hits a page can be made of: (image URL, provider)
HitSet == {[url |-> "a", provider |-> "flickr"], [url |-> "b", provider |-> "default"]}

\* the hits of the first page of a query in PageSpec
WideHitSet ==
  HitSet \cup {[url |-> "b", provider |-> "flickr"], [url |-> "c", provider |-> "flickr"]}

\* dead_link_mask.get_query_mask: the stored mask, or nothing
get_query_mask(store, query_hash, up) ==
  IF up /\ query_hash \in DOMAIN store THEN Some(store[query_hash]) ELSE None

\* dead_link_mask.save_query_mask: replaces the stored mask (best effort)
save_query_mask(store, query_hash, mask, up) ==
  IF up
    THEN [q \in DOMAIN store \cup {query_hash} |->
            IF q = query_hash THEN mask ELSE store[q]]
    ELSE store

\* ------------------------------------------------------------ the cache
CACHE_PREFIX == "valid:"

Digit(d) == SubSeq("0123456789", d + 1, d + 1)

RECURSIVE NatToStr(_)
NatToStr(n) == IF n < 10 THEN Digit(n) ELSE NatToStr(n \div 10) \o Digit(n % 10)

\* the decimal string redis stores for an int value
IntToStr(n) == IF n < 0 THEN "-" \o NatToStr(0 - n) ELSE NatToStr(n)

DigitVal(ch) == CHOOSE d \in 0..9 : Digit(d) = ch

RECURSIVE StrToNat(_)
StrToNat(s) ==
  IF Len(s) = 1 THEN DigitVal(s)
  ELSE 10 * StrToNat(SubSeq(s, 1, Len(s) - 1)) + DigitVal(SubSeq(s, Len(s), Len(s)))

\* int(b.decode("utf-8"))
StrToInt(s) ==
  IF SubSeq(s, 1, 1) = "-" THEN 0 - StrToNat(SubSeq(s, 2, Len(s))) ELSE StrToNat(s)

\* redis.mget: the stored value of each key, None for a missing key
mget_miss(redis, keys) == [i \in 1..Len(keys) |-> None]

mget(redis, keys) ==
  [i \in 1..Len(keys) |-> IF keys[i] \in DOMAIN redis THEN Some(redis[keys[i]]) ELSE None]

\* _get_cached_statuses; up = FALSE is redis raising ConnectionError
get_cached_statuses_anyway(redis, up, image_urls) ==
  LET cached_statuses ==
        mget(redis, [i \in 1..Len(image_urls) |-> CACHE_PREFIX \o image_urls[i]])
  IN  [i \in 1..Len(image_urls) |->
         IF cached_statuses[i] # None
           THEN Some(StrToInt(cached_statuses[i][1]))
           ELSE None]

get_cached_statuses(redis, up, image_urls) ==
  IF up
    THEN LET cached_statuses ==
               mget(redis, [i \in 1..Len(image_urls) |-> CACHE_PREFIX \o image_urls[i]])
         IN  [i \in 1..Len(image_urls) |->
                IF cached_statuses[i] # None
                  THEN Some(StrToInt(cached_statuses[i][1]))
                  ELSE None]
    ELSE [i \in 1..Len(image_urls) |-> None]

\* ------------------------------------------------------ check_dead_links
\* if not image_urls: return
fast_path_never(image_urls) == FALSE

fast_path(image_urls) == image_urls = <<>>

\* if cached_statuses[idx] is None
needs_head_all(cached_status) == TRUE

needs_head(cached_status) == cached_status = None

\* a dict holds each key once, at the place of its first insertion
dict_keys_append(keys, url) == Append(keys, url)

dict_keys(keys, url) == IF url \in Range(keys) THEN keys ELSE Append(keys, url)

\* to_verify = {}; to_verify[url] = idx for every position without a cached
\* status: keys in first-insertion order, each key's value its last position
RECURSIVE build_to_verify(_, _, _, _)
build_to_verify(image_urls, cached_statuses, i, acc) ==
  IF i > Len(image_urls) THEN acc
  ELSE build_to_verify(image_urls, cached_statuses, i + 1,
         IF needs_head(cached_statuses[i])
           THEN [keys |-> dict_keys(acc.keys, image_urls[i]),
                 idx  |-> (image_urls[i] :> i) @@ acc.idx]
           ELSE acc)

to_verify_of_nothing(image_urls, cached_statuses) == [keys |-> <<>>, idx |-> <<>>]

to_verify_of(image_urls, cached_statuses) ==
  build_to_verify(image_urls, cached_statuses, 1, [keys |-> <<>>, idx |-> <<>>])

\* asyncio.gather(*tasks).result(): one (url, status) per task, in task order
gather_reversed(urls, result) ==
  [i \in 1..Len(urls) |-> <<urls[Len(urls) - i + 1], result[Len(urls) - i + 1]>>]

gather_answered(urls, result) ==
  SelectSeq([i \in 1..Len(urls) |-> <<urls[i], result[i]>>],
            LAMBDA pair : pair[2] # -1)

gather(urls, result) == [i \in 1..Len(urls) |-> <<urls[i], result[i]>>]

\* to_cache = {CACHE_PREFIX + url: status for url, status in verified}
to_cache_of(verified) ==
  [k \in {CACHE_PREFIX \o verified[i][1] : i \in 1..Len(verified)} |->
     LET last == CHOOSE i \in 1..Len(verified) :
                   /\ CACHE_PREFIX \o verified[i][1] = k
                   /\ \A j \in 1..Len(verified) :
                        CACHE_PREFIX \o verified[j][1] = k => j <= i
     IN  verified[last][2]]

\* pipe.mset(to_cache) ... pipe.execute(); up = FALSE is ConnectionError
pipe_execute_anyway(redis, to_cache, up) ==
  [k \in DOMAIN redis \cup DOMAIN to_cache |->
     IF k \in DOMAIN to_cache THEN IntToStr(to_cache[k]) ELSE redis[k]]

pipe_execute(redis, to_cache, up) ==
  IF up
    THEN [k \in DOMAIN redis \cup DOMAIN to_cache |->
            IF k \in DOMAIN to_cache THEN IntToStr(to_cache[k]) ELSE redis[k]]
    ELSE redis

\* settings.LINK_VALIDATION_CACHE_EXPIRY_CONFIGURATION[status]: the TTL table,
\* with entries for 200 and -1 and a default for every other status
LINK_VALIDATION_CACHE_EXPIRY_CONFIGURATION(status) ==
  IF status = 200 THEN 30 ELSE IF status = -1 THEN 1 ELSE 120

\* for key, status in to_cache.items(): pipe.expire(key, expiry), run by the
\* same pipe.execute() as the mset
pipe_expire_answered(expiry, to_cache, up) ==
  IF up
    THEN [k \in DOMAIN expiry \cup {j \in DOMAIN to_cache : to_cache[j] # -1} |->
            IF k \in DOMAIN to_cache /\ to_cache[k] # -1
              THEN LINK_VALIDATION_CACHE_EXPIRY_CONFIGURATION(to_cache[k])
              ELSE expiry[k]]
    ELSE expiry

pipe_expire_touch_all(expiry, to_cache, up) ==
  IF up
    THEN [k \in DOMAIN expiry \cup DOMAIN to_cache |->
            IF k \in DOMAIN to_cache
              THEN LINK_VALIDATION_CACHE_EXPIRY_CONFIGURATION(to_cache[k])
              ELSE LINK_VALIDATION_CACHE_EXPIRY_CONFIGURATION(200)]
    ELSE expiry

pipe_expire(expiry, to_cache, up) ==
  IF up
    THEN [k \in DOMAIN expiry \cup DOMAIN to_cache |->
            IF k \in DOMAIN to_cache
              THEN LINK_VALIDATION_CACHE_EXPIRY_CONFIGURATION(to_cache[k])
              ELSE expiry[k]]
    ELSE expiry

\* for idx, url in enumerate(to_verify):
\*     cached_statuses[to_verify[url]] = verified[idx][1]
merge_verified_lookup(cached_statuses, to_verify, verified) == cached_statuses

merge_verified(cached_statuses, to_verify, verified) ==
  [p \in 1..Len(cached_statuses) |->
     IF \E i \in 1..Len(to_verify.keys) : to_verify.idx[to_verify.keys[i]] = p
       THEN LET i == CHOOSE i \in 1..Len(to_verify.keys) :
                       to_verify.idx[to_verify.keys[i]] = p
            IN  Some(verified[i][2])
       ELSE cached_statuses[p]]

\* status in status_mapping.unknown / status not in status_mapping.live
classify_redirect_live(provider, status) ==
  LET status_mapping == provider_status_mappings[provider]
  IN  IF status # None /\ status[1] \in status_mapping.unknown THEN "unknown"
      ELSE IF status # None /\ status[1] \in status_mapping.live \cup 300..399 THEN "live"
      ELSE "dead"

classify(provider, status) ==
  LET status_mapping == provider_status_mappings[provider]
  IN  IF status # None /\ status[1] \in status_mapping.unknown THEN "unknown"
      ELSE IF status # None /\ status[1] \in status_mapping.live THEN "live"
      ELSE "dead"

\* del results[del_idx]
del_next(s, d) == SubSeq(s, 1, d) \o SubSeq(s, d + 2, Len(s))

del_at(s, d) == SubSeq(s, 1, d - 1) \o SubSeq(s, d + 1, Len(s))

\* new_mask[del_idx] = 0
mark_dead_idx(new_mask, del_idx) ==
  [i \in 1..Len(new_mask) |-> IF i = Len(new_mask) - del_idx + 1 THEN 0 ELSE new_mask[i]]

mark_dead(new_mask, del_idx) ==
  [i \in 1..Len(new_mask) |-> IF i = del_idx THEN 0 ELSE new_mask[i]]

\* the reverse walk: step i visits del_idx = len(cached_statuses) - i + 1
\* (Python: idx = i - 1, del_idx = len - idx - 1); the warning logs
\* image_urls[idx]
RECURSIVE walk(_, _, _, _)
walk(cached_statuses, image_urls, i, acc) ==
  IF i > Len(cached_statuses) THEN acc
  ELSE LET del_idx == Len(cached_statuses) - i + 1
           status == cached_statuses[del_idx]
           provider == acc.results[del_idx].provider
           class == classify(provider, status)
       IN  walk(cached_statuses, image_urls, i + 1,
             IF class = "unknown"
               THEN [acc EXCEPT !.warned = Append(@, [pos |-> del_idx, url |-> image_urls[i]])]
             ELSE IF class # "live"
               THEN [acc EXCEPT !.results = del_at(@, del_idx),
                                !.new_mask = mark_dead(@, del_idx)]
             ELSE acc)

delete_broken(cached_statuses, image_urls, results) ==
  walk(cached_statuses, image_urls, 1,
       [results |-> results,
        new_mask |-> [i \in 1..Len(results) |-> 1],
        warned |-> <<>>])

\* if mask: new_mask = mask[:start_slice] + new_mask
merge_mask_tail(mask, start_slice, new_mask) ==
  IF mask # None /\ mask[1] # <<>>
    THEN SubSeq(mask[1], Min(start_slice, Len(mask[1])) + 1, Len(mask[1])) \o new_mask
    ELSE new_mask

merge_mask_overlay(mask, start_slice, new_mask) ==
  IF mask # None /\ mask[1] # <<>>
    THEN SubSeq(mask[1], 1, Min(start_slice, Len(mask[1]))) \o new_mask
           \o SubSeq(mask[1], start_slice + Len(new_mask) + 1, Len(mask[1]))
    ELSE new_mask

merge_mask_whole(mask, start_slice, new_mask) ==
  IF mask # None /\ mask[1] # <<>> THEN mask[1] \o new_mask ELSE new_mask

merge_mask(mask, start_slice, new_mask) ==
  IF mask # None /\ mask[1] # <<>>
    THEN SubSeq(mask[1], 1, Min(start_slice, Len(mask[1]))) \o new_mask
    ELSE new_mask

\* ---------------------------------------------------------------- state
VARIABLES
  redis,          \* the status cache: key -> stored string (missing: no entry)
  expiry,         \* the status cache: key -> the TTL set on it
  masks,          \* the mask store: query hash -> stored mask
  pc,             \* "idle" or "returned": where the sequential caller is
  frame,          \* the locals of the check_dead_links call that returned last
  ncalls,         \* check_dead_links calls made so far
  call,           \* per concurrent check_dead_links call: its position and locals
  maxConcurrent,  \* settings.LINK_VALIDATION_MAX_CONCURRENT_REQUESTS
  phase,          \* per batch: "idle", "running" or "returned"
  semaphore,      \* per batch: None, or Some(_value) of its asyncio.Semaphore
  tasks,          \* per batch: one record per _head task
  responses       \* per batch: what _make_head_requests returned

seqVars == <<redis, expiry, masks, pc, frame, ncalls, call>>
probeVars == <<maxConcurrent, phase, semaphore, tasks, responses>>
vars == <<redis, expiry, masks, pc, frame, ncalls, call, maxConcurrent, phase, semaphore, tasks, responses>>

EmptyMap == [k \in {} |-> ""]

NoFrame ==
  [ran |-> FALSE, start_slice |-> 0, image_urls |-> <<>>, hits |-> <<>>,
   results |-> <<>>, lookup |-> <<>>, probed |-> <<>>, verified |-> <<>>,
   cached_statuses |-> <<>>, new_mask |-> <<>>, warned |-> <<>>,
   mask |-> None, saved |-> <<>>, cache_calls |-> <<>>, up |-> <<>>]

\* a call that has not been made
NoCall ==
  [at |-> "idle", start_slice |-> 0, image_urls |-> <<>>, hits |-> <<>>,
   results |-> <<>>, lookup |-> <<>>, to_verify |-> [keys |-> <<>>, idx |-> <<>>],
   cached_statuses |-> <<>>, new_mask |-> <<>>, written |-> {}, mask |-> None,
   saved |-> <<>>]

\* the page handed to check_dead_links: results and the parallel image_urls
results_of(hits) ==
  [i \in 1..Len(hits) |-> [identifier |-> i, provider |-> hits[i].provider]]

image_urls_of(hits) == [i \in 1..Len(hits) |-> hits[i].url]

\* check_dead_links(query_hash, start_slice, results, image_urls), one call
\* from entry to return.  up names which redis operations succeed; result
\* is the status each _head task of the batch ends with.
check_dead_links(query_hash, start_slice, hits, up) ==
  LET results == results_of(hits)
      image_urls == image_urls_of(hits)
  IN
  /\ pc = "idle"
  /\ ncalls' = ncalls + 1
  /\ pc' = "returned"
  /\ IF fast_path(image_urls)
       THEN /\ frame' = [NoFrame EXCEPT !.start_slice = start_slice, !.up = up]
            /\ UNCHANGED <<redis, expiry, masks>>
       ELSE LET lookup == get_cached_statuses(redis, up.get, image_urls)
                to_verify == to_verify_of(image_urls, lookup)
            IN  \E result \in [1..Len(to_verify.keys) -> StatusSet] :
                  LET verified == gather(to_verify.keys, result)
                      to_cache == to_cache_of(verified)
                      cached_statuses == merge_verified(lookup, to_verify, verified)
                      out == delete_broken(cached_statuses, image_urls, results)
                      mask == get_query_mask(masks, query_hash, up.mask_get)
                      final_mask == merge_mask(mask, start_slice, out.new_mask)
                  IN  /\ redis' = pipe_execute(redis, to_cache, up.set)
                      /\ expiry' = pipe_expire(expiry, to_cache, up.set)
                      /\ masks' = save_query_mask(masks, query_hash, final_mask, up.mask_set)
                      /\ frame' = [ran |-> TRUE, start_slice |-> start_slice,
                                   image_urls |-> image_urls, hits |-> results,
                                   results |-> out.results, lookup |-> lookup,
                                   probed |-> to_verify.keys, verified |-> verified,
                                   cached_statuses |-> cached_statuses,
                                   new_mask |-> out.new_mask, warned |-> out.warned,
                                   mask |-> mask, saved |-> final_mask,
                                   cache_calls |-> <<"mget", "pipe.execute",
                                     "get_query_mask", "save_query_mask">>,
                                   up |-> up]
  /\ UNCHANGED <<call, probeVars>>

Ups == [get : BOOLEAN, set : BOOLEAN, mask_get : BOOLEAN, mask_set : BOOLEAN]

Pages == UNION {[1..n -> HitSet] : n \in 0..MaxLen}

CheckDeadLinks ==
  /\ ncalls < MaxCalls
  /\ \E start_slice \in 0..MaxOffset, hits \in Pages, up \in Ups :
       check_dead_links(QUERY, start_slice, hits, up)

\* the caller is done with the page; the call's locals are gone
Return ==
  /\ pc = "returned"
  /\ pc' = "idle"
  /\ frame' = NoFrame
  /\ UNCHANGED <<redis, expiry, masks, ncalls>>
  /\ UNCHANGED <<call, probeVars>>

\* a status entry reaches its expiry
Expire ==
  /\ pc = "idle"
  /\ \E k \in DOMAIN redis :
       /\ redis' = [j \in DOMAIN redis \ {k} |-> redis[j]]
       /\ expiry' = [j \in DOMAIN expiry \ {k} |-> expiry[j]]
  /\ UNCHANGED <<masks, pc, frame, ncalls>>
  /\ UNCHANGED <<call, probeVars>>

\* the stored mask expires in its store
LoseMask ==
  /\ pc = "idle"
  /\ QUERY \in DOMAIN masks
  /\ masks' = [q \in DOMAIN masks \ {QUERY} |-> masks[q]]
  /\ UNCHANGED <<redis, expiry, pc, frame, ncalls>>
  /\ UNCHANGED <<call, probeVars>>

ProbeIdle ==
  /\ phase = [c \in Calls |-> "idle"]
  /\ semaphore = [c \in Calls |-> None]
  /\ tasks = [c \in Calls |-> <<>>]
  /\ responses = [c \in Calls |-> <<>>]

Init ==
  /\ redis = EmptyMap
  /\ expiry = [k \in {} |-> 0]
  /\ masks = EmptyMap
  /\ pc = "idle"
  /\ frame = NoFrame
  /\ ncalls = 0
  /\ call = [c \in Calls |-> NoCall]
  /\ maxConcurrent = 0
  /\ ProbeIdle

Next == CheckDeadLinks \/ Return \/ Expire \/ LoseMask

Spec == Init /\ [][Next]_vars

\* PageSpec: the first page of a query, up to three hits over three URLs,
\* validated once against a cache that is empty or holds one dead entry
WidePages == UNION {[1..n -> WideHitSet] : n \in 0..MaxWideLen}

PageCaches == {EmptyMap, (CACHE_PREFIX \o "b") :> IntToStr(404)}

CheckFirstPage ==
  /\ ncalls = 0
  /\ \E hits \in WidePages, up \in Ups : check_dead_links(QUERY, 0, hits, up)

PageInit ==
  /\ redis \in PageCaches
  /\ expiry = [k \in DOMAIN redis |->
                 LINK_VALIDATION_CACHE_EXPIRY_CONFIGURATION(StrToInt(redis[k]))]
  /\ masks = EmptyMap
  /\ pc = "idle"
  /\ frame = NoFrame
  /\ ncalls = 0
  /\ call = [c \in Calls |-> NoCall]
  /\ maxConcurrent = 0
  /\ ProbeIdle

PageNext == CheckFirstPage \/ Return

PageSpec == PageInit /\ [][PageNext]_vars

\* --------------------------------------------------- _make_head_requests
\* asyncio.Semaphore(MAX) if MAX else None
new_semaphore_wide(max) == IF max # 0 THEN Some(max + 1) ELSE None

new_semaphore_double(max) == IF max # 0 THEN Some(2 * max) ELSE None

new_semaphore_always(max) == Some(max)

new_semaphore(max) == IF max # 0 THEN Some(max) ELSE None

\* semaphore.acquire() returns at once only while _value > 0
can_acquire_any(value) == TRUE

can_acquire(value) == value > 0

\* if semaphore._value < MAX: semaphore.release()
release(value, max) == IF value < max THEN value + 1 ELSE value

\* the lists of URLs a batch is started with: the keys of a dict
Batches ==
  {<<>>} \cup {<<u>> : u \in URLS}
         \cup {<<u, v>> : <<u, v>> \in {p \in URLS \X URLS : p[1] # p[2]}}

Running(c, i) == phase[c] = "running" /\ i \in 1..Len(tasks[c])

\* how many tasks of batch c have returned
Finished(c) == Cardinality({i \in 1..Len(tasks[c]) : tasks[c][i].at = "done"})

\* _make_head_requests up to the gather: the semaphore and one task per URL
start_batch(c, urls) ==
  /\ phase[c] = "idle"
  /\ phase' = [phase EXCEPT ![c] = "running"]
  /\ semaphore' = [semaphore EXCEPT ![c] = new_semaphore(maxConcurrent)]
  /\ tasks' = [tasks EXCEPT ![c] =
       [i \in 1..Len(urls) |-> [url |-> urls[i], at |-> "created", result |-> None, how |-> "none",
                                heads |-> 0, acquires |-> 0, acquired |-> FALSE,
                                nth |-> 0]]]
  /\ UNCHANGED <<maxConcurrent, responses>>

make_head_requests(c, urls) ==
  /\ start_batch(c, urls)
  /\ UNCHANGED seqVars

\* _flow_control without a semaphore: yield at once, the HEAD request starts
Unlimited(c, i) ==
  /\ Running(c, i)
  /\ tasks[c][i].at = "created"
  /\ semaphore[c] = None
  /\ tasks' = [tasks EXCEPT ![c][i] = [@ EXCEPT !.at = "head", !.heads = @ + 1]]
  /\ UNCHANGED <<maxConcurrent, phase, semaphore, responses>>
  /\ UNCHANGED seqVars

\* wait_for(semaphore.acquire(), timeout=2) succeeds; the HEAD request starts
Acquire(c, i) ==
  /\ Running(c, i)
  /\ tasks[c][i].at = "created"
  /\ semaphore[c] # None
  /\ can_acquire(semaphore[c][1])
  /\ semaphore' = [semaphore EXCEPT ![c] = Some(semaphore[c][1] - 1)]
  /\ tasks' = [tasks EXCEPT ![c][i] =
       [@ EXCEPT !.at = "head", !.heads = @ + 1, !.acquires = @ + 1,
                 !.acquired = TRUE]]
  /\ UNCHANGED <<maxConcurrent, phase, responses>>
  /\ UNCHANGED seqVars

\* except TimeoutError: ... raise, caught in _head: return url, -1
timed_out_goes_on(task) == [task EXCEPT !.at = "head", !.heads = @ + 1]

timed_out(task) ==
  [task EXCEPT !.at = "done", !.result = Some(-1), !.how = "acquire_timeout",
               !.acquires = @ + 1]

\* wait_for times out while no slot is free: TimeoutError reaches _head,
\* which returns (url, -1)
AcquireTimeout(c, i) ==
  /\ Running(c, i)
  /\ tasks[c][i].at = "created"
  /\ semaphore[c] # None
  /\ ~can_acquire(semaphore[c][1])
  /\ tasks' = [tasks EXCEPT ![c][i] = [timed_out(@) EXCEPT !.nth = Finished(c) + 1]]
  /\ UNCHANGED <<maxConcurrent, phase, semaphore, responses>>
  /\ UNCHANGED seqVars

\* session.head answers: _head returns (url, response.status) and the
\* context manager runs on after its yield
HeadResponse(c, i, status) ==
  /\ Running(c, i)
  /\ tasks[c][i].at = "head"
  /\ tasks' = [tasks EXCEPT ![c][i] =
       [@ EXCEPT !.at = "done", !.result = Some(status), !.how = "status",
                 !.nth = Finished(c) + 1]]
  /\ semaphore' = [semaphore EXCEPT ![c] =
       IF @ = None THEN None ELSE Some(release(@[1], maxConcurrent))]
  /\ UNCHANGED <<maxConcurrent, phase, responses>>
  /\ UNCHANGED seqVars

\* except (aiohttp.ClientError, TimeoutError): return url, -1
head_failed_retries(task) == [task EXCEPT !.at = "created"]

head_failed(task) == [task EXCEPT !.at = "done", !.result = Some(-1), !.how = "error"]

\* session.head raises ClientError or TimeoutError: the exception is thrown
\* into the context manager at its yield, the lines after the yield do not
\* run, and _head returns (url, -1)
HeadError(c, i) ==
  /\ Running(c, i)
  /\ tasks[c][i].at = "head"
  /\ tasks' = [tasks EXCEPT ![c][i] = [head_failed(@) EXCEPT !.nth = Finished(c) + 1]]
  /\ UNCHANGED <<maxConcurrent, phase, semaphore, responses>>
  /\ UNCHANGED seqVars

\* asyncio.gather(*tasks) is done when every task has returned
first_done(ts) == \E i \in 1..Len(ts) : ts[i].at = "done"

all_done(ts) == \A i \in 1..Len(ts) : ts[i].at = "done"

\* what a task returned; a task that has not returned has no result, read
\* as -1
returned_status(task) == IF task.result # None THEN task.result[1] ELSE -1

\* await responses; return responses.result()
Gather(c) ==
  /\ phase[c] = "running"
  /\ all_done(tasks[c])
  /\ responses' = [responses EXCEPT ![c] =
       gather([i \in 1..Len(tasks[c]) |-> tasks[c][i].url],
              [i \in 1..Len(tasks[c]) |-> returned_status(tasks[c][i])])]
  /\ phase' = [phase EXCEPT ![c] = "returned"]
  /\ UNCHANGED <<maxConcurrent, semaphore, tasks>>
  /\ UNCHANGED seqVars

\* the caller has taken the responses; the loop, tasks and semaphore are gone
BatchDone(c) ==
  /\ phase[c] = "returned"
  /\ phase' = [phase EXCEPT ![c] = "idle"]
  /\ semaphore' = [semaphore EXCEPT ![c] = None]
  /\ tasks' = [tasks EXCEPT ![c] = <<>>]
  /\ responses' = [responses EXCEPT ![c] = <<>>]
  /\ UNCHANGED maxConcurrent
  /\ UNCHANGED seqVars

ProbeInit ==
  /\ redis = EmptyMap
  /\ expiry = [k \in {} |-> 0]
  /\ masks = EmptyMap
  /\ pc = "idle"
  /\ frame = NoFrame
  /\ ncalls = 0
  /\ call = [c \in Calls |-> NoCall]
  /\ maxConcurrent \in 0..MaxM
  /\ ProbeIdle

ProbeNext ==
  \E c \in Calls :
    \/ \E urls \in Batches : make_head_requests(c, urls)
    \/ \E i \in 1..Cardinality(URLS) :
         \/ Unlimited(c, i)
         \/ Acquire(c, i)
         \/ AcquireTimeout(c, i)
         \/ HeadError(c, i)
         \/ \E status \in HttpStatuses : HeadResponse(c, i, status)
    \/ Gather(c)
    \/ BatchDone(c)

ProbeSpec == ProbeInit /\ [][ProbeNext]_vars

\* what the event loop does for batch c: one step of one of its tasks, or
\* the return of the gather
BatchStep(c) ==
  \/ \E i \in 1..Cardinality(URLS) :
       \/ Unlimited(c, i)
       \/ Acquire(c, i)
       \/ AcquireTimeout(c, i)
       \/ HeadError(c, i)
       \/ \E status \in HttpStatuses : HeadResponse(c, i, status)
  \/ Gather(c)

\* the event loop runs every task that can go on, and every acquire and
\* every HEAD request completes or times out (timeout=2, total=2)
ProbeFairSpec == ProbeSpec /\ \A c \in Calls : WF_vars(BatchStep(c))

\* ------------------------------------- concurrent check_dead_links calls
\* CallSpec: two check_dead_links calls for the same query, in two workers
\* that share the status cache and the mask store (both available): call 1
\* validates the first page, call 2 the page after it.  Each call goes
\* through its lookup, its batch of probes, the write-back and the walk,
\* the mask load and the mask save.
CallPages == {hits \in [1..2 -> HitSet] : hits[1].url # hits[2].url}

CallStatuses == {200, 404}

\* lines 128-147: the lookup, to_verify, and _make_head_requests is started
Enter(c, hits) ==
  /\ call[c].at = "idle"
  /\ phase[c] = "idle"
  /\ LET image_urls == image_urls_of(hits)
         lookup == get_cached_statuses(redis, TRUE, image_urls)
         to_verify == to_verify_of(image_urls, lookup)
     IN  /\ call' = [call EXCEPT ![c] =
               [NoCall EXCEPT !.at = "probing",
                              !.start_slice = (c - 1) * Len(hits),
                              !.image_urls = image_urls,
                              !.hits = results_of(hits),
                              !.results = results_of(hits),
                              !.lookup = lookup,
                              !.to_verify = to_verify]]
         /\ start_batch(c, to_verify.keys)
  /\ UNCHANGED <<redis, expiry, masks, pc, frame, ncalls>>

\* lines 147-206: _make_head_requests has returned; the write-back, the
\* merge and the reverse walk
Filter(c) ==
  /\ call[c].at = "probing"
  /\ phase[c] = "returned"
  /\ LET verified == responses[c]
         to_cache == to_cache_of(verified)
         cached_statuses == merge_verified(call[c].lookup, call[c].to_verify, verified)
         out == delete_broken(cached_statuses, call[c].image_urls, call[c].results)
     IN  /\ redis' = pipe_execute(redis, to_cache, TRUE)
         /\ expiry' = pipe_expire(expiry, to_cache, TRUE)
         /\ call' = [call EXCEPT ![c] =
               [@ EXCEPT !.at = "filtered",
                         !.cached_statuses = cached_statuses,
                         !.results = out.results,
                         !.new_mask = out.new_mask,
                         !.written = DOMAIN to_cache]]
  /\ UNCHANGED <<masks, pc, frame, ncalls>>
  /\ UNCHANGED probeVars

\* line 209: mask = get_query_mask(query_hash)
LoadMask(c) ==
  /\ call[c].at = "filtered"
  /\ call' = [call EXCEPT ![c] =
       [@ EXCEPT !.at = "loaded", !.mask = get_query_mask(masks, QUERY, TRUE)]]
  /\ UNCHANGED <<redis, expiry, masks, pc, frame, ncalls>>
  /\ UNCHANGED probeVars

\* lines 210-215: the merge with the loaded mask and save_query_mask
SaveMask(c) ==
  /\ call[c].at = "loaded"
  /\ LET final_mask == merge_mask(call[c].mask, call[c].start_slice, call[c].new_mask)
     IN  /\ masks' = save_query_mask(masks, QUERY, final_mask, TRUE)
         /\ call' = [call EXCEPT ![c] = [@ EXCEPT !.at = "returned", !.saved = final_mask]]
  /\ UNCHANGED <<redis, expiry, pc, frame, ncalls>>
  /\ UNCHANGED probeVars

CallInit ==
  /\ redis = EmptyMap
  /\ expiry = [k \in {} |-> 0]
  /\ masks = EmptyMap
  /\ pc = "idle"
  /\ frame = NoFrame
  /\ ncalls = 0
  /\ call = [c \in Calls |-> NoCall]
  /\ maxConcurrent \in 0..MaxM
  /\ ProbeIdle

CallNext ==
  \E c \in Calls :
    \/ \E hits \in CallPages : Enter(c, hits)
    \/ \E i \in 1..Cardinality(URLS) :
         \/ Unlimited(c, i)
         \/ Acquire(c, i)
         \/ AcquireTimeout(c, i)
         \/ HeadError(c, i)
         \/ \E status \in CallStatuses : HeadResponse(c, i, status)
    \/ Gather(c)
    \/ Filter(c)
    \/ LoadMask(c)
    \/ SaveMask(c)

CallSpec == CallInit /\ [][CallNext]_vars

\* ------------------------------------------------------------ properties
Returned == pc = "returned" /\ frame.ran

\* status is in the provider's live set or in its unknown set
NotDead(provider, status) ==
  /\ status # None
  /\ status[1] \in provider_status_mappings[provider].live
                     \cup provider_status_mappings[provider].unknown

DeadPositions(hits, statuses) ==
  {i \in 1..Len(hits) : ~NotDead(hits[i].provider, statuses[i])}

RECURSIVE Survivors(_, _, _)
Survivors(hits, statuses, i) ==
  IF i > Len(hits) THEN <<>>
  ELSE (IF NotDead(hits[i].provider, statuses[i]) THEN <<hits[i]>> ELSE <<>>)
         \o Survivors(hits, statuses, i + 1)

\* C1: when check_dead_links has returned, results is the subsequence of
\* the input entries whose final status is live or unknown for the entry's
\* provider, in the input order, and its length is the input length minus
\* the number of dead entries.
C1_ResultsAreSurvivors ==
  Returned =>
    /\ frame.results = Survivors(frame.hits, frame.cached_statuses, 1)
    /\ Len(frame.results)
         = Len(frame.hits) - Cardinality(DeadPositions(frame.hits, frame.cached_statuses))

\* the dead middle entry of three was removed; the first and the last,
\* of different providers, were kept in their order
C1_Witness ==
  /\ Returned
  /\ Len(frame.hits) = 3
  /\ frame.hits[1].provider # frame.hits[3].provider
  /\ DeadPositions(frame.hits, frame.cached_statuses) = {2}
  /\ frame.results = <<frame.hits[1], frame.hits[3]>>

\* C2: the provisional mask has one bit per input entry, 0 exactly at the
\* entries classified dead and 1 at the live and the unknown ones.
C2_ProvisionalMask ==
  Returned =>
    /\ Len(frame.new_mask) = Len(frame.hits)
    /\ \A i \in 1..Len(frame.hits) :
         frame.new_mask[i]
           = (IF i \in DeadPositions(frame.hits, frame.cached_statuses) THEN 0 ELSE 1)

\* statuses [200, 404, 429] under live = {200}, unknown = {429}: the output
\* is the first and the third entry and the mask is [1, 0, 1]
C2_Witness ==
  /\ Returned
  /\ \A i \in 1..Len(frame.hits) : frame.hits[i].provider = "flickr"
  /\ frame.cached_statuses = <<Some(200), Some(404), Some(429)>>
  /\ frame.new_mask = <<1, 0, 1>>
  /\ Len(frame.results) = 2
  /\ frame.results[1].identifier = 1
  /\ frame.results[2].identifier = 3

\* C3: when the stored mask was loaded and the merged mask saved, the saved
\* mask agrees with the loaded one at every position below start_slice that
\* the loaded mask has.
C3_EarlierPagesKept ==
  (Returned /\ frame.mask # None /\ frame.mask[1] # <<>> /\ frame.up.mask_set) =>
    /\ QUERY \in DOMAIN masks
    /\ \A i \in 1..Min(frame.start_slice, Len(frame.mask[1])) :
         /\ i <= Len(masks[QUERY])
         /\ masks[QUERY][i] = frame.mask[1][i]

\* a second page was validated on top of a stored first page that holds a 0
C3_Witness ==
  /\ Returned
  /\ frame.mask # None
  /\ frame.up.mask_set
  /\ frame.start_slice = 2
  /\ Len(frame.mask[1]) = 2
  /\ frame.mask[1][1] = 0
  /\ frame.new_mask = <<1, 0>>
  /\ masks[QUERY] = <<0, frame.mask[1][2], 1, 0>>

\* C4: the bit computed for page-local position j of a call at offset
\* start_slice is stored at index start_slice + j of the saved mask (Python
\* positions; element start_slice + j here with j counted from 1).
C4_BitsAtAbsolutePositions ==
  (Returned /\ frame.up.mask_get /\ frame.up.mask_set) =>
    /\ QUERY \in DOMAIN masks
    /\ Len(masks[QUERY]) >= frame.start_slice + Len(frame.new_mask)
    /\ \A j \in 1..Len(frame.new_mask) :
         masks[QUERY][frame.start_slice + j] = frame.new_mask[j]

\* C5: no URL handed to the prober has a cached status in this call's lookup.
C5_NoProbeForCached ==
  Returned =>
    Range(frame.probed)
      \cap {frame.image_urls[i] : i \in {j \in 1..Len(frame.image_urls) : frame.lookup[j] # None}}
      = {}

\* one URL of the page was a cache hit and the other one was probed
C5_Witness ==
  /\ Returned
  /\ Len(frame.image_urls) = 2
  /\ frame.lookup[1] # None
  /\ frame.lookup[2] = None
  /\ frame.probed = <<frame.image_urls[2]>>

ProbesOf(url) == {j \in 1..Len(frame.probed) : frame.probed[j] = url}

\* C6: every URL without a cached status is probed exactly once, also when
\* it occurs at several positions, and when the cache write succeeds the
\* status of that probe is stored under "valid:" + URL.
C6_OneProbeThenCached ==
  Returned =>
    \A i \in 1..Len(frame.image_urls) :
      frame.lookup[i] = None =>
        /\ Cardinality(ProbesOf(frame.image_urls[i])) = 1
        /\ frame.up.set =>
             \A j \in ProbesOf(frame.image_urls[i]) :
               /\ frame.verified[j][1] = frame.image_urls[i]
               /\ ("valid:" \o frame.image_urls[i]) \in DOMAIN redis
               /\ StrToInt(redis["valid:" \o frame.image_urls[i]]) = frame.verified[j][2]

\* the same uncached URL at both positions: one probe, its 429 cached
C6_Witness ==
  /\ Returned
  /\ frame.image_urls = <<"a", "a">>
  /\ frame.lookup = <<None, None>>
  /\ frame.probed = <<"a">>
  /\ frame.up.set
  /\ frame.verified = <<<<"a", 429>>>>
  /\ redis["valid:a"] = "429"

\* C7: after the merge every position holds the cached status of its URL if
\* the lookup found one, and otherwise the result of the probe of its URL.
C7_MergedStatusEverywhere ==
  Returned =>
    \A i \in 1..Len(frame.image_urls) :
      /\ frame.cached_statuses[i] # None
      /\ frame.lookup[i] # None => frame.cached_statuses[i] = frame.lookup[i]
      /\ frame.lookup[i] = None =>
           \E j \in 1..Len(frame.verified) :
             /\ frame.verified[j][1] = frame.image_urls[i]
             /\ frame.cached_statuses[i] = Some(frame.verified[j][2])

InFlight(c) == Cardinality({i \in 1..Len(tasks[c]) : tasks[c][i].at = "head"})

\* C8: with a maximum M > 0, a batch never has more than M HEAD requests
\* in flight.
C8_BatchAtMostM ==
  maxConcurrent > 0 => \A c \in Calls : InFlight(c) <= maxConcurrent

\* M requests in flight and one more task waiting for a slot
C8_Witness ==
  /\ maxConcurrent > 0
  /\ \E c \in Calls :
       /\ InFlight(c) = maxConcurrent
       /\ semaphore[c] = Some(0)
       /\ \E i \in 1..Len(tasks[c]) : tasks[c][i].at = "created"

TotalInFlight == InFlight(1) + InFlight(2)

\* C9 as claimed: with M > 0, the HEAD requests in flight across all
\* concurrent calls of the process never exceed M.
C9_SharedLimiter ==
  maxConcurrent > 0 => TotalInFlight <= maxConcurrent

\* C9 amended: each call has its own limiter, so with M > 0 the requests in
\* flight across the concurrent calls never exceed M times the number of
\* calls that are running their batch.
C9_LimiterPerCall ==
  maxConcurrent > 0 =>
    TotalInFlight <= maxConcurrent * Cardinality({c \in Calls : phase[c] = "running"})

\* two concurrent calls with M requests in flight each
C9_Witness ==
  /\ maxConcurrent > 0
  /\ InFlight(1) = maxConcurrent
  /\ InFlight(2) = maxConcurrent
  /\ semaphore[1] = Some(0)
  /\ semaphore[2] = Some(0)

\* C10: the free slots and the probes holding a slot always add up to M,
\* and the free slots are M again once every probe of the batch is done.
C10_SlotsConserved ==
  \A c \in Calls :
    semaphore[c] # None =>
      /\ semaphore[c][1] + InFlight(c) = maxConcurrent
      /\ (\A i \in 1..Len(tasks[c]) : tasks[c][i].at = "done") =>
           semaphore[c][1] = maxConcurrent

\* C11: a probe whose slot acquire timed out has issued no HEAD request,
\* has taken no slot and has ended with -1; no probe of a limited batch
\* issues a HEAD request without having taken a slot.
C11_AcquireTimeoutEndsProbe ==
  \A c \in Calls :
    semaphore[c] # None =>
      \A i \in 1..Len(tasks[c]) :
        /\ tasks[c][i].how = "acquire_timeout" =>
             /\ tasks[c][i].at = "done"
             /\ tasks[c][i].result = Some(-1)
             /\ tasks[c][i].heads = 0
             /\ ~tasks[c][i].acquired
        /\ tasks[c][i].heads > 0 => tasks[c][i].acquired

\* one probe timed out on the acquire while its sibling holds the only slot
C11_Witness ==
  \E c \in Calls :
    /\ semaphore[c] = Some(0)
    /\ Len(tasks[c]) = 2
    /\ tasks[c][1].at = "head"
    /\ tasks[c][2].how = "acquire_timeout"
    /\ tasks[c][2].result = Some(-1)

\* C12: _make_head_requests returns one (url, status) pair per input URL,
\* in input order; a probe that failed (network error, request timeout,
\* acquire timeout) has status -1 and its siblings have their own results.
C12_OnePairPerUrl ==
  \A c \in Calls :
    phase[c] = "returned" =>
      /\ Len(responses[c]) = Len(tasks[c])
      /\ \A i \in 1..Len(tasks[c]) :
           /\ responses[c][i][1] = tasks[c][i].url
           /\ tasks[c][i].how \in {"error", "acquire_timeout"} => responses[c][i][2] = -1
           /\ tasks[c][i].how = "status" =>
                /\ responses[c][i][2] \in HttpStatuses
                /\ Some(responses[c][i][2]) = tasks[c][i].result
           /\ tasks[c][i].how # "none"

\* the first probe failed on the network, the second one answered 200
C12_Witness ==
  \E c \in Calls :
    /\ phase[c] = "returned"
    /\ Len(tasks[c]) = 2
    /\ tasks[c][1].how = "error"
    /\ tasks[c][2].how = "status"
    /\ responses[c] = <<<<tasks[c][1].url, -1>>, <<tasks[c][2].url, 200>>>>

\* a check_dead_links call, from entry to return, as one step
Called == pc = "idle" /\ pc' = "returned"

Key(url) == CACHE_PREFIX \o url

PositionsOf(url) == {p \in 1..Len(frame.image_urls) : frame.image_urls[p] = url}

\* C13: when the status lookup fails, the lookup result is a list of None
\* as long as the URL list, and every URL of the call is probed.
C13_LookupFailureProbesAll ==
  (Returned /\ ~frame.up.get) =>
    /\ Len(frame.lookup) = Len(frame.image_urls)
    /\ \A i \in 1..Len(frame.lookup) : frame.lookup[i] = None
    /\ \A i \in 1..Len(frame.image_urls) : frame.image_urls[i] \in Range(frame.probed)

\* the cache holds an entry for a URL of the page, the lookup failed (and
\* so did the write), and the URL was probed
C13_Witness ==
  /\ Returned
  /\ ~frame.up.get
  /\ ~frame.up.set
  /\ \E i \in 1..Len(frame.image_urls) :
       /\ Key(frame.image_urls[i]) \in DOMAIN redis
       /\ frame.image_urls[i] \in Range(frame.probed)

\* C14: a call whose status write-back fails leaves the status cache as it
\* was, runs the write once, and still returns the results and the
\* provisional mask that follow from the fresh probe statuses.
C14_WriteFailureKeepsResults ==
  [][(Called /\ frame'.ran /\ ~frame'.up.set) =>
       /\ redis' = redis
       /\ expiry' = expiry
       /\ Cardinality({c \in 1..Len(frame'.cache_calls) :
                         frame'.cache_calls[c] = "pipe.execute"}) = 1
       /\ \A j \in 1..Len(frame'.verified) :
            \E p \in 1..Len(frame'.image_urls) :
              /\ frame'.image_urls[p] = frame'.verified[j][1]
              /\ frame'.cached_statuses[p] = Some(frame'.verified[j][2])
       /\ frame'.results = Survivors(frame'.hits, frame'.cached_statuses, 1)
       /\ \A p \in 1..Len(frame'.new_mask) :
            frame'.new_mask[p] = 0 <=> p \in DeadPositions(frame'.hits, frame'.cached_statuses)
    ]_vars

\* the write failed: the probed URL answered 200, its entry is kept in the
\* results, and the cache has no entry for it
C14_Witness ==
  /\ Returned
  /\ frame.up.get
  /\ ~frame.up.set
  /\ \E j \in 1..Len(frame.verified) :
       /\ frame.verified[j][2] = 200
       /\ Key(frame.verified[j][1]) \notin DOMAIN redis
       /\ \E p \in PositionsOf(frame.verified[j][1]) : frame.hits[p] \in Range(frame.results)

\* C15: with the status lookup failing and three different URLs, two probes
\* answering 200 and one ending with -1, all three URLs are probed and the
\* results are the two 200 entries in their input order.
C15_TimedOutEntryOnlyExcluded ==
  \A d \in 1..3 :
    (/\ Returned
     /\ ~frame.up.get
     /\ Len(frame.image_urls) = 3
     /\ Cardinality(Range(frame.image_urls)) = 3
     /\ Len(frame.verified) = 3
     /\ \A p \in 1..3 : \A j \in 1..3 :
          frame.verified[j][1] = frame.image_urls[p] =>
            frame.verified[j][2] = (IF p = d THEN -1 ELSE 200))
    =>
    /\ Range(frame.probed) = Range(frame.image_urls)
    /\ Len(frame.probed) = 3
    /\ frame.results = [j \in 1..2 |-> frame.hits[IF j < d THEN j ELSE j + 1]]

\* cache down, a and c answer 200, the probe of b ends with -1
C15_Witness ==
  /\ Returned
  /\ ~frame.up.get
  /\ frame.image_urls = <<"a", "b", "c">>
  /\ frame.verified = <<<<"a", 200>>, <<"b", -1>>, <<"c", 200>>>>
  /\ frame.results = <<frame.hits[1], frame.hits[3]>>

\* C16: whichever cache operations fail and whichever probes fail, the call
\* can be made and returns the filtered results, and every entry it filtered
\* had a cached status or was probed.
C16_FailuresNeverAbort ==
  /\ (pc = "idle" /\ ncalls < MaxCalls) =>
       \A up \in Ups : \A hit \in HitSet : ENABLED check_dead_links(QUERY, 0, <<hit>>, up)
  /\ Returned =>
       /\ Len(frame.new_mask) = Len(frame.image_urls)
       /\ Len(frame.results)
            = Cardinality({p \in 1..Len(frame.new_mask) : frame.new_mask[p] = 1})
       /\ \A p \in 1..Len(frame.new_mask) :
            frame.new_mask[p] = 0 =>
              \/ frame.lookup[p] # None
              \/ frame.image_urls[p] \in Range(frame.probed)

\* every cache operation failed and one of two probes failed: the call
\* returned the page without the failed entry
C16_Witness ==
  /\ Returned
  /\ frame.up = [get |-> FALSE, set |-> FALSE, mask_get |-> FALSE, mask_set |-> FALSE]
  /\ Len(frame.verified) = 2
  /\ frame.verified[1][2] = -1
  /\ frame.verified[2][2] = 200
  /\ frame.results = <<frame.hits[2]>>

\* C17: a call with an empty URL list changes neither the results, the
\* status cache nor the stored masks, issues no probe and makes no cache
\* call.
C17_EmptyPageIsNoOp ==
  [][(Called /\ frame'.image_urls = <<>>) =>
       /\ redis' = redis
       /\ expiry' = expiry
       /\ masks' = masks
       /\ frame'.results = frame'.hits
       /\ frame'.probed = <<>>
       /\ frame'.cache_calls = <<>>
    ]_vars

\* an empty page was checked while the cache and the mask store hold data
C17_Witness ==
  /\ pc = "returned"
  /\ ~frame.ran
  /\ frame.image_urls = <<>>
  /\ ncalls = 2
  /\ redis # EmptyMap
  /\ QUERY \in DOMAIN masks

\* C18: every entry of the status cache has an expiry, the TTL of its
\* status: the table's entry for 200 and for -1, the default for any other.
C18_EveryEntryHasItsTtl ==
  /\ DOMAIN expiry = DOMAIN redis
  /\ \A k \in DOMAIN redis :
       expiry[k] = LINK_VALIDATION_CACHE_EXPIRY_CONFIGURATION(StrToInt(redis[k]))
  /\ (Returned /\ frame.up.set) =>
       \A j \in 1..Len(frame.verified) : Key(frame.verified[j][1]) \in DOMAIN expiry

\* one call cached a failure and a status without a TTL of its own
C18_Witness ==
  /\ Returned
  /\ frame.up.set
  /\ frame.verified = <<<<"a", -1>>, <<"b", 404>>>>
  /\ expiry = (Key("a") :> LINK_VALIDATION_CACHE_EXPIRY_CONFIGURATION(-1))
                @@ (Key("b") :> LINK_VALIDATION_CACHE_EXPIRY_CONFIGURATION(404))
  /\ expiry[Key("a")] # expiry[Key("b")]

\* a probe that ended with -1 is written to the cache when the write succeeds
FailureIsCached ==
  (Called /\ frame'.ran /\ frame'.up.set) =>
    \A j \in 1..Len(frame'.verified) :
      frame'.verified[j][2] = -1 =>
        /\ Key(frame'.verified[j][1]) \in DOMAIN redis'
        /\ redis'[Key(frame'.verified[j][1])] = "-1"
        /\ Key(frame'.verified[j][1]) \in DOMAIN expiry'

\* a URL whose entry has expired is probed by the next call that has it
ExpiredIsProbedAgain ==
  (Called /\ frame'.ran) =>
    \A u \in Range(frame'.image_urls) :
      Key(u) \notin DOMAIN redis => u \in Range(frame'.probed)

\* the call does not probe u and every position of u has status -1
UsesCachedFailure(u) ==
  /\ u \notin Range(frame'.probed)
  /\ \A p \in 1..Len(frame'.image_urls) :
       frame'.image_urls[p] = u => frame'.cached_statuses[p] = Some(-1)

\* C19 as stated: a cached -1 is used by every later call made before the
\* entry expires, without a probe, and after the expiry the next call
\* probes the URL again.
C19_CachedFailureAlwaysUsed ==
  [][/\ FailureIsCached
     /\ ExpiredIsProbedAgain
     /\ (Called /\ frame'.ran) =>
          \A u \in Range(frame'.image_urls) :
            (Key(u) \in DOMAIN redis /\ redis[Key(u)] = "-1") => UsesCachedFailure(u)
    ]_vars

\* C19 amended: a cached -1 is used, without a probe, by every later call
\* made before the entry expires whose status lookup succeeds; a call whose
\* lookup fails probes the URL again; after the expiry the next call probes
\* the URL again.
C19_CachedFailureUsedWhenRead ==
  [][/\ FailureIsCached
     /\ ExpiredIsProbedAgain
     /\ (Called /\ frame'.ran) =>
          \A u \in Range(frame'.image_urls) :
            (Key(u) \in DOMAIN redis /\ redis[Key(u)] = "-1") =>
              IF frame'.up.get THEN UsesCachedFailure(u)
                               ELSE u \in Range(frame'.probed)
    ]_vars

\* the second call read the -1 an earlier call had cached for a: no probe
\* of a, and a's entry is filtered
C19_Witness ==
  /\ Returned
  /\ ncalls = 2
  /\ frame.up.get
  /\ "a" \in Range(frame.image_urls)
  /\ "a" \notin Range(frame.probed)
  /\ \A p \in PositionsOf("a") : frame.lookup[p] = Some(-1) /\ frame.new_mask[p] = 0
  /\ redis[Key("a")] = "-1"

\* C20: an entry whose final status is a redirect is removed from the
\* results and has mask bit 0 when its provider's live set has no redirect
\* code.
C20_RedirectIsDead ==
  Returned =>
    \A p \in 1..Len(frame.hits) :
      (/\ frame.cached_statuses[p] # None
       /\ frame.cached_statuses[p][1] \in 300..399
       /\ provider_status_mappings[frame.hits[p].provider].live \cap 300..399 = {})
      =>
      /\ frame.new_mask[p] = 0
      /\ frame.hits[p] \notin Range(frame.results)

\* the second of three entries answered 301 and is gone; its neighbours stay
C20_Witness ==
  /\ Returned
  /\ Len(frame.hits) = 3
  /\ frame.cached_statuses = <<Some(200), Some(301), Some(200)>>
  /\ frame.new_mask = <<1, 0, 1>>
  /\ frame.results = <<frame.hits[1], frame.hits[3]>>

\* C22: every probe makes at most one acquire attempt and at most one HEAD
\* request, a finished probe has a result, and every running batch
\* eventually returns.
C22_ProbesEndBatchReturns ==
  /\ [](\A c \in Calls : \A i \in 1..Len(tasks[c]) :
          /\ tasks[c][i].acquires <= 1
          /\ tasks[c][i].heads <= 1
          /\ tasks[c][i].at = "done" => tasks[c][i].result # None)
  /\ \A c \in Calls : (phase[c] = "running") ~> (phase[c] = "returned")

\* a limited batch of two has returned: one probe made its one request and
\* got a redirect, the other made its one acquire attempt and timed out
C22_Witness ==
  \E c \in Calls :
    /\ phase[c] = "returned"
    /\ Len(tasks[c]) = 2
    /\ tasks[c][1].heads = 1 /\ tasks[c][1].acquires = 1
    /\ tasks[c][1].result = Some(301)
    /\ tasks[c][2].heads = 0 /\ tasks[c][2].acquires = 1
    /\ tasks[c][2].how = "acquire_timeout"

\* C23: the available count of a batch's semaphore never exceeds the
\* configured maximum.
C23_AvailableAtMostM ==
  \A c \in Calls : semaphore[c] # None => semaphore[c][1] <= maxConcurrent

\* a probe took a slot, got its answer and gave the slot back: the count
\* is at the maximum again
C23_Witness ==
  \E c \in Calls :
    /\ semaphore[c] = Some(maxConcurrent)
    /\ \E i \in 1..Len(tasks[c]) : tasks[c][i].acquired /\ tasks[c][i].how = "status"

\* C24: a probe of a limited batch ends with an acquire timeout only while
\* a HEAD request of the batch is in flight; slots held by probes that
\* failed are free again.
C24_FailedProbeKeepsCapacity ==
  [][\A c \in Calls :
       (phase[c] = "running" /\ phase'[c] = "running") =>
         \A i \in 1..Len(tasks[c]) :
           (tasks[c][i].how # "acquire_timeout" /\ tasks'[c][i].how = "acquire_timeout")
             => \E j \in 1..Len(tasks[c]) : tasks[c][j].at = "head"
    ]_vars

\* C28: with maximum 0 a batch has no semaphore, no probe takes a slot or
\* makes an acquire attempt, none ends with an acquire timeout, and every
\* started probe has issued its HEAD request.
C28_DisabledMeansUnlimited ==
  maxConcurrent = 0 =>
    \A c \in Calls :
      /\ semaphore[c] = None
      /\ \A i \in 1..Len(tasks[c]) :
           /\ ~tasks[c][i].acquired
           /\ tasks[c][i].acquires = 0
           /\ tasks[c][i].how # "acquire_timeout"
           /\ tasks[c][i].at # "created" => tasks[c][i].heads = 1

\* maximum 0: all four probes of the two batches are in flight at once
C28_Witness ==
  /\ maxConcurrent = 0
  /\ \A c \in Calls :
       /\ Len(tasks[c]) = 2
       /\ \A i \in 1..2 : tasks[c][i].at = "head"

\* C26: after a call at offset s with n entries that loaded a non-empty
\* mask m and saved, the stored mask is the first min(len(m), s) bits of m
\* followed by the n provisional bits, and nothing of m beyond them.
C26_PrefixThenProvisional ==
  (Returned /\ frame.up.mask_set /\ frame.mask # None /\ frame.mask[1] # <<>>) =>
    LET m == frame.mask[1]
        kept == Min(Len(m), frame.start_slice)
        n == Len(frame.hits)
    IN  /\ Len(frame.new_mask) = n
        /\ Len(masks[QUERY]) = kept + n
        /\ \A i \in 1..kept : masks[QUERY][i] = m[i]
        /\ \A i \in 1..n : masks[QUERY][kept + i] = frame.new_mask[i]

\* a mask of two bits was stored; the first page is validated again with
\* one entry: the stored mask has one bit, the second bit is gone
C26_Witness ==
  /\ Returned
  /\ frame.up.mask_set
  /\ frame.mask # None
  /\ Len(frame.mask[1]) = 2
  /\ frame.start_slice = 0
  /\ Len(frame.hits) = 1
  /\ masks[QUERY] = frame.new_mask

\* C29: a call changes the status cache only at the keys of the URLs it
\* probed: every other entry keeps its value and its expiry, and no other
\* key appears.
C29_OnlyProbedEntriesWritten ==
  [][(Called /\ frame'.ran) =>
       LET probed_keys == {Key(frame'.probed[j]) : j \in 1..Len(frame'.probed)}
       IN  /\ DOMAIN redis' \subseteq DOMAIN redis \cup probed_keys
           /\ DOMAIN expiry' \subseteq DOMAIN expiry \cup probed_keys
           /\ \A k \in DOMAIN redis \ probed_keys :
                /\ k \in DOMAIN redis' /\ redis'[k] = redis[k]
                /\ k \in DOMAIN expiry' /\ expiry'[k] = expiry[k]
    ]_vars

\* the second call found a's failure in the cache and probed only b: a's
\* entry still has the TTL of a failure, b's entry is new
C29_Witness ==
  /\ Returned
  /\ ncalls = 2
  /\ frame.up.get /\ frame.up.set
  /\ frame.image_urls = <<"a", "b">>
  /\ frame.lookup = <<Some(-1), None>>
  /\ frame.probed = <<"b">>
  /\ redis = (Key("a") :> "-1") @@ (Key("b") :> "200")
  /\ expiry[Key("a")] = LINK_VALIDATION_CACHE_EXPIRY_CONFIGURATION(-1)

\* C30: every warning of the reverse walk names the URL of the entry that
\* was classified unknown.
C30_WarningNamesItsEntry ==
  Returned =>
    \A w \in 1..Len(frame.warned) :
      frame.warned[w].url = frame.image_urls[frame.warned[w].pos]

\* some probe of call c has not produced its result yet
ProbesPending(c) == \E i \in 1..Len(tasks[c]) : tasks[c][i].result = None

\* C21: while a probe of a call is pending, the call is still waiting for
\* its batch: it has removed no entry, set no mask bit and written no
\* status; while no call is past its batch, the cache and the mask store
\* are as they were.
C21_NothingBeforeAllProbes ==
  /\ \A c \in Calls :
       (call[c].at # "idle" /\ ProbesPending(c)) =>
         /\ call[c].at = "probing"
         /\ call[c].results = call[c].hits
         /\ call[c].new_mask = <<>>
         /\ call[c].written = {}
  /\ (\A c \in Calls : call[c].at \in {"idle", "probing"}) =>
       redis = EmptyMap /\ masks = EmptyMap

\* one probe of the call already answered 404 and the other request is in
\* flight: the dead entry is still in the results and nothing is cached
C21_Witness ==
  \E c \in Calls :
    /\ call[c].at = "probing"
    /\ Len(tasks[c]) = 2
    /\ tasks[c][1].result = Some(404)
    /\ tasks[c][2].at = "head"
    /\ call[c].results = call[c].hits
    /\ redis = EmptyMap

\* C25: the mask a call saves is built from the mask that call loaded
\* earlier, whatever the store holds at the save, and it replaces the stored
\* mask: the first min(len(loaded), offset) loaded bits, then the call's own
\* bits.
C25_LastSaveWins ==
  [][\A c \in Calls :
       (call[c].at = "loaded" /\ call'[c].at = "returned") =>
         LET m == call[c].mask
             kept == IF m = None THEN 0 ELSE Min(Len(m[1]), call[c].start_slice)
             n == Len(call[c].new_mask)
         IN  /\ masks'[QUERY] = call'[c].saved
             /\ Len(call'[c].saved) = kept + n
             /\ \A i \in 1..kept : call'[c].saved[i] = m[1][i]
             /\ \A i \in 1..n : call'[c].saved[kept + i] = call[c].new_mask[i]
    ]_vars

\* both calls loaded before either saved and call 2 saved last: the store
\* holds only the two bits of call 2, the bits call 1 saved are lost
C25_Witness ==
  /\ call[1].at = "returned"
  /\ call[2].at = "returned"
  /\ call[1].mask = None
  /\ call[2].mask = None
  /\ call[2].start_slice = 2
  /\ call[1].saved = <<0, 1>>
  /\ call[2].saved = <<1, 1>>
  /\ masks[QUERY] = <<1, 1>>

\* C27: after the merge, the status at the position recorded for a probed
\* URL is the result of the task of that URL, whatever the order in which
\* the tasks returned, and the results and the provisional mask follow from
\* these statuses and the ones read from the cache.
C27_PairedByUrl ==
  \A c \in Calls :
    call[c].at \in {"filtered", "loaded", "returned"} =>
      /\ \A i \in 1..Len(tasks[c]) :
           LET p == call[c].to_verify.idx[tasks[c][i].url]
           IN  /\ call[c].image_urls[p] = tasks[c][i].url
               /\ call[c].cached_statuses[p] = tasks[c][i].result
      /\ \A p \in 1..Len(call[c].image_urls) :
           call[c].lookup[p] # None => call[c].cached_statuses[p] = call[c].lookup[p]
      /\ call[c].results = Survivors(call[c].hits, call[c].cached_statuses, 1)
      /\ \A p \in 1..Len(call[c].new_mask) :
           call[c].new_mask[p] = 0
             <=> p \in DeadPositions(call[c].hits, call[c].cached_statuses)

\* the second task returned first, with 404; the first returned 200 later:
\* the first entry is kept, the second removed
C27_Witness ==
  \E c \in Calls :
    /\ call[c].at = "filtered"
    /\ Len(tasks[c]) = 2
    /\ tasks[c][1].nth = 2 /\ tasks[c][1].result = Some(200)
    /\ tasks[c][2].nth = 1 /\ tasks[c][2].result = Some(404)
    /\ call[c].cached_statuses = <<Some(200), Some(404)>>
    /\ call[c].results = <<call[c].hits[1]>>

====
